---- MODULE Spec2Model ----
(***************************************************************************)
(* Sahana Eden Mobile - the emSync service (www/services/sync.js).         *)
(*                                                                         *)
(* The service is a closure over a job queue (syncJobs), a re-entrancy     *)
(* flag (statusUpdate) and the shared slot $rootScope.syncInProgress.  It  *)
(* runs on a single-threaded event loop: every action below is one task of *)
(* that loop (an API call, or one callback of a collaborator), executed    *)
(* from its first statement to its last.  Every state of the model is      *)
(* therefore a quiescent state (no callback executing).                    *)
(*                                                                         *)
(* Sequential code is modelled by operators that take the service state as *)
(* a record s and return the state after the code has run.                 *)
(***************************************************************************)
EXTENDS Integers, Sequences, FiniteSets, TLC

\* ------------------------------------------------------------------ bounds

\* External synchronize() calls in one execution.
MaxCalls == 2
\* Entries of a form list passed to synchronize(), items of a catalog.
MaxForms == 2
\* Form entries and catalog items supplied in one execution, all lists together.
MaxEntries == 2
\* Entries of the currentList / items of data passed to updateFormList().
MaxCur == 2
MaxData == 2

\* -------------------------------------------------------------- JS values

\* The download flag of a form entry is an arbitrary JS value; the ones that
\* occur are the two booleans and undefined.
JsTrue == "true"
JsFalse == "false"
JsUndefined == "undefined"

\* if (v) ...
Truthy(v) == v = JsTrue

\* Table names.  "constructor" stands for the names that every plain object
\* inherits from Object.prototype.
Names == {"incident", "assessment"}
FormNames == Names \cup {"constructor"}
ObjectPrototypeKeys == {"constructor"}

\* Seq(S) restricted to lengths 0..n
SeqUpTo(S, n) == UNION {[1..k -> S] : k \in 0..n}

\* Array.prototype.indexOf: first index of x in the array, -1 when absent
\* (indices are 0-based in the source, 1-based here; only -1 is compared).
IndexOf(arr, x) ==
    IF \E i \in 1..Len(arr) : arr[i] = x
    THEN (CHOOSE i \in 1..Len(arr) : arr[i] = x /\ \A k \in 1..(i-1) : arr[k] # x) - 1
    ELSE -1

\* ------------------------------------------------------------------- state

VARIABLES
    jobs,            \* every SyncJob object constructed so far, by identity
    syncJobs,        \* the job queue: identities of the queued jobs, in order
    statusUpdate,    \* the re-entrancy flag of updateSyncStatus
    timers,          \* pending $timeout(updateSyncStatus, 100) callbacks
    syncInProgress,  \* $rootScope.syncInProgress
    inflight,        \* emServer.getForm requests awaiting their callback
    calls,           \* every synchronize() activation that is not a recursion
    httpErrors,      \* responses passed to emServer.httpError, in order
    statusHist,      \* per job: every value its status field has held
    getFormCalls,    \* per job: emServer.getForm requests issued for it
    passes,          \* entries of updateSyncStatus so far
    lastPass,        \* the queue before and after the latest compaction pass
    lastRun,         \* the latest direct invocation of SyncJob.run
    ufl,             \* an updateFormList() API call: arguments and result
    vld              \* emValidate calls: the field, the arguments, the results

vars == <<jobs, syncJobs, statusUpdate, timers, syncInProgress, inflight, calls,
          httpErrors, statusHist, getFormCalls, passes, lastPass, lastRun, ufl,
          vld>>

svcVars == <<jobs, syncJobs, statusUpdate, timers, syncInProgress, inflight, calls,
             httpErrors, statusHist, getFormCalls, passes, lastPass>>

\* The service state as one record, threaded through the sequential code.
Cur ==
    [jobs |-> jobs, syncJobs |-> syncJobs, statusUpdate |-> statusUpdate,
     timers |-> timers, syncInProgress |-> syncInProgress, inflight |-> inflight,
     calls |-> calls, httpErrors |-> httpErrors, statusHist |-> statusHist,
     getFormCalls |-> getFormCalls, passes |-> passes, lastPass |-> lastPass]

\* The task ends in state s.  (Actions bind s to the value of the task's
\* operator first, so that it is computed once.)
Commit(s) ==
    /\ jobs' = s.jobs
    /\ syncJobs' = s.syncJobs
    /\ statusUpdate' = s.statusUpdate
    /\ timers' = s.timers
    /\ syncInProgress' = s.syncInProgress
    /\ inflight' = s.inflight
    /\ calls' = s.calls
    /\ httpErrors' = s.httpErrors
    /\ statusHist' = s.statusHist
    /\ getFormCalls' = s.getFormCalls
    /\ passes' = s.passes
    /\ lastPass' = s.lastPass

OpenStatuses == {"pending", "active"}
TerminalStatuses == {"success", "error"}

\* -------------------------------------------------------- updateSyncStatus

\* syncJobs.filter(job => job.status == 'pending' || job.status == 'active')
OpenJobs(s) ==
    SelectSeq(s.syncJobs, LAMBDA j : s.jobs[j].status = "pending" \/ s.jobs[j].status = "active")

\* The statuses of the queued jobs, in queue order.
QueueStatuses(s) == [i \in 1..Len(s.syncJobs) |-> s.jobs[s.syncJobs[i]].status]

\* A pass that compacts nothing: keeps the terminal jobs in the queue.
UpdateSyncStatusNoCompaction(s) ==
    [s EXCEPT !.passes = @ + 1,
              !.syncInProgress = Len(OpenJobs(s)) > 0,
              !.lastPass = [before |-> QueueStatuses(s), queue |-> s.syncJobs,
                            after |-> s.syncJobs,
                            flag |-> Len(OpenJobs(s)) > 0, deferred |-> FALSE]]

\* A pass that publishes true only while some job is still pending.
UpdateSyncStatusFlagPendingOnly(s) ==
    LET openJobs == OpenJobs(s)
        flag == \E i \in 1..Len(openJobs) : s.jobs[openJobs[i]].status = "pending"
    IN  [s EXCEPT !.passes = @ + 1,
                  !.syncJobs = openJobs,
                  !.syncInProgress = flag,
                  !.lastPass = [before |-> QueueStatuses(s), queue |-> s.syncJobs,
                                after |-> openJobs,
                                flag |-> flag, deferred |-> FALSE]]

\* A pass that keeps only the pending jobs in the queue.
UpdateSyncStatusKeepsPendingOnly(s) ==
    LET kept == SelectSeq(s.syncJobs, LAMBDA j : s.jobs[j].status = "pending") IN
    [s EXCEPT !.passes = @ + 1,
              !.syncJobs = kept,
              !.syncInProgress = Len(OpenJobs(s)) > 0,
              !.lastPass = [before |-> QueueStatuses(s), queue |-> s.syncJobs,
                            after |-> kept,
                            flag |-> Len(OpenJobs(s)) > 0, deferred |-> FALSE]]

\* A pass that does not reset the re-entrancy flag when it is done.
UpdateSyncStatusStaysBusy(s) ==
    IF s.statusUpdate
    THEN [s EXCEPT !.passes = @ + 1,
                   !.timers = @ + 1,
                   !.lastPass = [before |-> QueueStatuses(s), queue |-> s.syncJobs,
                                 after |-> s.syncJobs,
                                 flag |-> s.syncInProgress, deferred |-> TRUE]]
    ELSE LET openJobs == OpenJobs(s) IN
         [s EXCEPT !.passes = @ + 1,
                   !.syncJobs = openJobs,
                   !.syncInProgress = Len(openJobs) > 0,
                   !.statusUpdate = TRUE,
                   !.lastPass = [before |-> QueueStatuses(s), queue |-> s.syncJobs,
                                 after |-> openJobs,
                                 flag |-> Len(openJobs) > 0, deferred |-> FALSE]]

\* A pass that schedules the next one, as a poller would.
UpdateSyncStatusPolling(s) ==
    LET openJobs == OpenJobs(s) IN
    [s EXCEPT !.passes = @ + 1,
              !.timers = @ + 1,
              !.syncJobs = openJobs,
              !.syncInProgress = Len(openJobs) > 0,
              !.lastPass = [before |-> QueueStatuses(s), queue |-> s.syncJobs,
                            after |-> openJobs,
                            flag |-> Len(openJobs) > 0, deferred |-> FALSE]]

UpdateSyncStatus(s) ==
    IF s.statusUpdate
    THEN \* $timeout(updateSyncStatus, 100)
         [s EXCEPT !.passes = @ + 1,
                   !.timers = @ + 1,
                   !.lastPass = [before |-> QueueStatuses(s), queue |-> s.syncJobs,
                                 after |-> s.syncJobs,
                                 flag |-> s.syncInProgress, deferred |-> TRUE]]
    ELSE \* statusUpdate = true ... statusUpdate = false
         LET openJobs == OpenJobs(s) IN
         [s EXCEPT !.passes = @ + 1,
                   !.syncJobs = openJobs,
                   !.syncInProgress = Len(openJobs) > 0,
                   !.statusUpdate = FALSE,
                   !.lastPass = [before |-> QueueStatuses(s), queue |-> s.syncJobs,
                                 after |-> openJobs,
                                 flag |-> Len(openJobs) > 0, deferred |-> FALSE]]

\* ----------------------------------------------------------------- SyncJob

SyncJob(type, mode, tableName, ref) ==
    [type |-> type, mode |-> mode, tableName |-> tableName, ref |-> ref,
     status |-> "pending"]

\* self.status = st
SetStatus(s, j, st) ==
    [s EXCEPT !.jobs[j].status = st, !.statusHist[j] = Append(@, st)]

\* emServer.getForm(self.tableName, self.ref, onSuccess, onError)
GetForm(s, j) ==
    [s EXCEPT !.inflight = Append(@, j), !.getFormCalls[j] = @ + 1]

\* run() without the guard.
RunUnguarded(s, j) == GetForm(SetStatus(s, j, "active"), j)

\* A start that takes the job out of the queue.
RunDequeues(s, j) ==
    IF s.jobs[j].status # "pending"
    THEN s
    ELSE LET s1 == GetForm(SetStatus(s, j, "active"), j) IN
         [s1 EXCEPT !.syncJobs = SelectSeq(@, LAMBDA q : q # j)]

\* SyncJob.prototype.run
Run(s, j) ==
    IF s.jobs[j].status # "pending"
    THEN s
    ELSE GetForm(SetStatus(s, j, "active"), j)

\* Completions that record the outcome without an aggregation pass.
OnGetFormSuccessNoPass(s, j) == SetStatus(s, j, "success")
OnGetFormErrorNoPass(s, j) == SetStatus(s, j, "error")

\* A completion that puts the job back for another attempt.
OnGetFormErrorRetry(s, j) == UpdateSyncStatus(SetStatus(s, j, "pending"))

\* The success callback handed to emServer.getForm.
OnGetFormSuccess(s, j) == UpdateSyncStatus(SetStatus(s, j, "success"))

\* The error callback handed to emServer.getForm.
OnGetFormError(s, j) == UpdateSyncStatus(SetStatus(s, j, "error"))

\* ---------------------------------------------------------- updateFormList

\* var items = {}; currentList.forEach(item => items[item.tableName] = item)
\* The own properties of items: a later entry overwrites an earlier one.
Items(currentList) ==
    [t \in {currentList[i].tableName : i \in 1..Len(currentList)} |->
        currentList[CHOOSE i \in 1..Len(currentList) :
                        /\ currentList[i].tableName = t
                        /\ \A k \in (i+1)..Len(currentList) : currentList[k].tableName # t]]

\* download = true; item = items[tableName];
\* if (item !== undefined) download = item.download
\* items is a plain object: a name it does not own is looked up in
\* Object.prototype, where e.g. items["constructor"] is the function Object,
\* which is not undefined and has no download property.
RetainedDownload(currentList, tableName) ==
    IF tableName \in DOMAIN Items(currentList)
    THEN Items(currentList)[tableName].download
    ELSE IF tableName \in ObjectPrototypeKeys
         THEN JsUndefined
         ELSE JsTrue

\* An entry whose installed flag is carried over from the current list too.
FormEntryInstalledRetained(currentList, tables, formData) ==
    [name |-> formData.n,
     tableName |-> formData.t,
     ref |-> formData.r,
     installed |-> IF formData.t \in DOMAIN Items(currentList)
                   THEN Items(currentList)[formData.t].installed
                   ELSE (IndexOf(tables, formData.t) # -1),
     download |-> RetainedDownload(currentList, formData.t)]

\* The body of data.forEach
FormEntry(currentList, tables, formData) ==
    [name |-> formData.n,
     tableName |-> formData.t,
     ref |-> formData.r,
     installed |-> (IndexOf(tables, formData.t) # -1),
     download |-> RetainedDownload(currentList, formData.t)]

\* An update that keeps the current entries the server no longer lists.
UpdateFormListKeepsCurrent(currentList, tables, data) ==
    [i \in 1..Len(data) |-> FormEntry(currentList, tables, data[i])]
        \o SelectSeq(currentList,
                     LAMBDA item : \A i \in 1..Len(data) : data[i].t # item.tableName)

UpdateFormList(currentList, tables, data) ==
    [i \in 1..Len(data) |-> FormEntry(currentList, tables, data[i])]

\* -------------------------------------------------------- generateSyncJobs

\* syncJobs.push(job), for a job just constructed
PushJob(s, job) ==
    [s EXCEPT !.jobs = Append(@, job),
              !.syncJobs = Append(@, Len(s.jobs) + 1),
              !.statusHist = Append(@, <<job.status>>),
              !.getFormCalls = Append(@, 0)]

\* One iteration of formList.forEach in generateSyncJobs.
GenerateOne(s, form) ==
    IF Truthy(form.download)
    THEN PushJob(s, SyncJob("form", "pull", form.tableName, form.ref))
    ELSE s

\* Iterations i.. of formList.forEach: the state and the jobs scheduled.
RECURSIVE GenerateFrom(_, _, _)
GenerateFrom(s, formList, i) ==
    IF i > Len(formList)
    THEN [s |-> s, jobsScheduled |-> 0]
    ELSE LET rest == GenerateFrom(GenerateOne(s, formList[i]), formList, i + 1) IN
         [s |-> rest.s,
          jobsScheduled |-> rest.jobsScheduled
                              + (IF Truthy(formList[i].download) THEN 1 ELSE 0)]

\* A generator that schedules a job for every entry, selected or not.
GenerateSyncJobsAll(s, formList) ==
    GenerateFrom(s, [i \in 1..Len(formList) |-> [formList[i] EXCEPT !.download = JsTrue]], 1)

GenerateSyncJobs(s, formList) == GenerateFrom(s, formList, 1)

\* ------------------------------------------------------------- getFormList

\* The record of one synchronize() activation.
\*   pc: "catalog"  emServer.formList requested, no response yet
\*       "tables"   catalog received, emDB.tables() pending
\*       "resolved" the deferred is resolved, the then-callback is queued
\*       "rejected" the deferred is rejected (no rejection handler exists)
\*       "stalled"  emDB.tables() rejected: the deferred never settles
\*       "done"     the activation has nothing left to do
NewCall(forms, parent, branch, pc) ==
    [forms |-> forms, parent |-> parent, branch |-> branch, pc |-> pc,
     data |-> <<>>, tableNames |-> <<>>, formList |-> <<>>, response |-> <<>>,
     catalogReqs |-> 0, tablesReqs |-> 0, jobsScheduled |-> 0,
     firstJob |-> 0, recursed |-> 0]

\* A resolver that always asks the server.
GetFormListAlwaysFetch(s, formList, parent) ==
    [s EXCEPT !.calls = Append(@, [NewCall(formList, parent, "generate", "catalog")
                                      EXCEPT !.catalogReqs = 1])]

\* getFormList up to its return: either the deferred is resolved with the
\* given list, or emServer.formList is requested.
GetFormList(s, formList, parent) ==
    IF Len(formList) > 0
    THEN [s EXCEPT !.calls = Append(@, [NewCall(formList, parent, "generate", "resolved")
                                           EXCEPT !.formList = formList])]
    ELSE [s EXCEPT !.calls = Append(@, [NewCall(formList, parent, "generate", "catalog")
                                           EXCEPT !.catalogReqs = 1])]

\* ------------------------------------------------------------- synchronize

\* A loop that stops after the first pending job it has started.
RECURSIVE RunPendingFirstOnly(_, _)
RunPendingFirstOnly(s, i) ==
    IF i > Len(s.syncJobs)
    THEN s
    ELSE LET j == s.syncJobs[i] IN
         IF s.jobs[j].status = "pending" THEN Run(s, j) ELSE RunPendingFirstOnly(s, i + 1)

\* Iterations i.. of syncJobs.forEach in synchronize.
RECURSIVE RunPendingFrom(_, _)
RunPendingFrom(s, i) ==
    IF i > Len(s.syncJobs)
    THEN s
    ELSE LET j == s.syncJobs[i] IN
         RunPendingFrom(IF s.jobs[j].status = "pending" THEN Run(s, j) ELSE s, i + 1)

\* The activation is recorded: an external call that finds jobs queued is a
\* record of its own, a recursive call that does is counted in its parent.
NoteRunBranch(s, forms, parent) ==
    IF parent = 0
    THEN [s EXCEPT !.calls = Append(@, NewCall(forms, 0, "run", "done"))]
    ELSE [s EXCEPT !.calls[parent].recursed = @ + 1]

\* A driver that does not publish the flag itself.
SynchronizeNoFlag(s, forms, parent) ==
    IF Len(s.syncJobs) > 0
    THEN RunPendingFrom(NoteRunBranch(s, forms, parent), 1)
    ELSE GetFormList(s, forms, parent)

\* synchronize(forms); parent is 0 for a call from outside the service and
\* the calling activation for the recursive call.
Synchronize(s, forms, parent) ==
    LET s1 == [s EXCEPT !.syncInProgress = TRUE] IN
    IF Len(s1.syncJobs) > 0
    THEN RunPendingFrom(NoteRunBranch(s1, forms, parent), 1)
    ELSE GetFormList(s1, forms, parent)

\* A then-callback that leaves the new jobs for a later synchronize() call.
OnFormListNoRecursion(s, c) ==
    LET formList == s.calls[c].formList
        g == GenerateSyncJobs(s, formList)
        s1 == [g.s EXCEPT !.calls[c].pc = "done",
                          !.calls[c].jobsScheduled = g.jobsScheduled,
                          !.calls[c].firstJob = Len(s.jobs) + 1]
    IN  IF g.jobsScheduled > 0 THEN s1 ELSE UpdateSyncStatus(s1)

\* A then-callback that forgets the zero-job case.
OnFormListNoCorrection(s, c) ==
    LET formList == s.calls[c].formList
        g == GenerateSyncJobs(s, formList)
        s1 == [g.s EXCEPT !.calls[c].pc = "done",
                          !.calls[c].jobsScheduled = g.jobsScheduled,
                          !.calls[c].firstJob = Len(s.jobs) + 1]
    IN  IF g.jobsScheduled > 0 THEN Synchronize(s1, formList, c) ELSE s1

\* A then-callback that calls synchronize() twice after generating jobs.
OnFormListRecursesTwice(s, c) ==
    LET formList == s.calls[c].formList
        g == GenerateSyncJobs(s, formList)
        s1 == [g.s EXCEPT !.calls[c].pc = "done",
                          !.calls[c].jobsScheduled = g.jobsScheduled,
                          !.calls[c].firstJob = Len(s.jobs) + 1]
    IN  IF g.jobsScheduled > 0
        THEN Synchronize(Synchronize(s1, formList, c), formList, c)
        ELSE UpdateSyncStatus(s1)

\* The then-callback of getFormList(forms) in synchronize.
OnFormList(s, c) ==
    LET formList == s.calls[c].formList
        g == GenerateSyncJobs(s, formList)
        s1 == [g.s EXCEPT !.calls[c].pc = "done",
                          !.calls[c].jobsScheduled = g.jobsScheduled,
                          !.calls[c].firstJob = Len(s.jobs) + 1]
    IN  IF g.jobsScheduled > 0
        THEN Synchronize(s1, formList, c)
        ELSE UpdateSyncStatus(s1)

\* A failure callback that reports the error without an aggregation pass.
OnCatalogErrorNoPass(s, c, response) ==
    [s EXCEPT !.httpErrors = Append(@, response),
              !.calls[c].pc = "rejected",
              !.calls[c].response = <<response>>]

\* The failure callback handed to emServer.formList in getFormList.
OnCatalogError(s, c, response) ==
    LET s1 == UpdateSyncStatus(s) IN
    [s1 EXCEPT !.httpErrors = Append(@, response),
               !.calls[c].pc = "rejected",
               !.calls[c].response = <<response>>]

\* The success callback handed to emServer.formList: emDB.tables() is asked.
OnCatalog(s, c, data) ==
    [s EXCEPT !.calls[c].pc = "tables",
              !.calls[c].data = data,
              !.calls[c].tablesReqs = @ + 1]

\* The then-callback of emDB.tables() in getFormList.
OnTables(s, c, tableNames) ==
    [s EXCEPT !.calls[c].pc = "resolved",
              !.calls[c].tableNames = tableNames,
              !.calls[c].formList = UpdateFormList(<<>>, tableNames, s.calls[c].data)]

\* emDB.tables() rejects: its promise has no rejection handler.
OnTablesRejected(s, c) == [s EXCEPT !.calls[c].pc = "stalled"]

\* ------------------------------------------------------------------ inputs

\* The catalog the server knows, in its order; item i is for table NameAt(i).
NameSeq == <<"incident", "assessment", "constructor">>
NameAt(i) == NameSeq[((i - 1) % Len(NameSeq)) + 1]

LabelOf(t) ==
    CASE t = "incident" -> "Incident"
      [] t = "assessment" -> "Assessment"
      [] OTHER -> "Constructor"

\* The server reference of a form, {c: controller, f: function, vars: vars}.
RefOf(t) == [c |-> "mobile", f |-> "forms", vars |-> t]

\* One item of the server's catalog: {n: name, t: tableName, r: ref}
CatalogItem(t) == [n |-> LabelOf(t), t |-> t, r |-> RefOf(t)]

\* The responses of emServer.formList: the first k items of the catalog.
Catalogs == {[i \in 1..k |-> CatalogItem(NameAt(i))] : k \in 0..MaxForms}

\* The results of emDB.tables().
TableLists == {<<>>, <<"incident">>}

\* The failure responses of emServer.formList (HTTP status).
Responses == {404, 500}

\* A form list as the Sync controller holds it: the first k forms of the
\* catalog, each selected for download or not.
SelectedForm(t, d) ==
    [name |-> LabelOf(t), tableName |-> t, ref |-> RefOf(t),
     installed |-> FALSE, download |-> d]

FormLists ==
    UNION {{[i \in 1..k |-> SelectedForm(NameAt(i), sel[i])] :
                sel \in [1..k -> {JsTrue, JsFalse}]} : k \in 0..MaxForms}

\* seq without its k-th element
RemoveAt(seq, k) == [i \in 1..(Len(seq) - 1) |-> IF i < k THEN seq[i] ELSE seq[i + 1]]

NoPass == [before |-> <<>>, queue |-> <<>>, after |-> <<>>, flag |-> FALSE, deferred |-> FALSE]
NoRun == [job |-> 0, before |-> "none"]
NoUfl == [currentList |-> <<>>, tables |-> <<>>, data |-> <<>>, called |-> FALSE, result |-> <<>>]

\* ------------------------------------------------------- validation rules

\* The JS values that occur in rule options: undefined, numbers, strings.
Undefined == [t |-> "undefined", n |-> 0, s |-> ""]
Num(k) == [t |-> "number", n |-> k, s |-> ""]
Str(x) == [t |-> "string", n |-> 0, s |-> x]

\* if (v) ...
IsTruthy(v) ==
    CASE v.t = "undefined" -> FALSE
      [] v.t = "number" -> v.n # 0
      [] OTHER -> v.s # ""

\* The strings among the inputs that convert to a number: '' is 0, '7' is 7.
NumericStrings == {"", "7"}

\* isNaN(v - 0)
IsNaN(v) ==
    CASE v.t = "undefined" -> TRUE
      [] v.t = "number" -> FALSE
      [] OTHER -> v.s \notin NumericStrings

\* '' + v
ToStr(v) ==
    CASE v.t = "undefined" -> "undefined"
      [] v.t = "number" -> ToString(v.n)
      [] OTHER -> v.s

\* The options of a rule: null, or an object whose absent keys read as
\* undefined.
NullOptions == [null |-> TRUE, min |-> Undefined, max |-> Undefined, error |-> Undefined]
ObjOptions(min, max, error) == [null |-> FALSE, min |-> min, max |-> max, error |-> error]
EmptyOptions == ObjOptions(Undefined, Undefined, Undefined)

\* An attribute of a directives object; the object is the sequence of its
\* attributes in insertion order.
Attr(attr, value) == [attr |-> attr, value |-> value]

\* rules.isNotEmpty
IsNotEmpty(options) ==
    LET errorMsg == IF ~IsTruthy(options.error) THEN Str("Enter a value") ELSE options.error IN
    [directives |-> <<Attr("ng-required", "true")>>,
     errors |-> <<"required">>,
     message |-> errorMsg]

\* if (v !== undefined && !isNaN(v - 0)) { v = directives.<attr> = '' + v; }
BoundGiven(v) == v # Undefined /\ ~IsNaN(v)
BoundValue(v) == IF BoundGiven(v) THEN Str(ToStr(v)) ELSE v
BoundDirective(attr, v) == IF BoundGiven(v) THEN <<Attr(attr, ToStr(v))>> ELSE <<>>

\* rules.isIntInRange
IsIntInRange(options) ==
    LET min == BoundValue(options.min)
        max == BoundValue(options.max)
        directives == <<Attr("ng-pattern", "/^[-+]?[0-9]*$/")>>
                          \o BoundDirective("min", options.min)
                          \o BoundDirective("max", options.max)
        errors == <<"number", "pattern">>
    IN  IF IsTruthy(options.error)
        THEN [directives |-> directives, errors |-> errors, message |-> options.error]
        ELSE IF IsTruthy(min) /\ IsTruthy(max)
        THEN [directives |-> directives, errors |-> errors \o <<"min", "max">>,
              message |-> Str("Enter an integer between " \o ToStr(min)
                                  \o " and " \o ToStr(max))]
        ELSE IF IsTruthy(min)
        THEN [directives |-> directives, errors |-> Append(errors, "min"),
              message |-> Str("Enter an integer >= " \o ToStr(min))]
        ELSE IF IsTruthy(max)
        THEN [directives |-> directives, errors |-> Append(errors, "max"),
              message |-> Str("Enter an integer <= " \o ToStr(max))]
        ELSE [directives |-> directives, errors |-> errors,
              message |-> Str("Enter an integer")]

\* rules.isFloatInRange
IsFloatInRange(options) ==
    LET min == BoundValue(options.min)
        max == BoundValue(options.max)
        directives == BoundDirective("min", options.min)
                          \o BoundDirective("max", options.max)
        errors == <<"number">>
    IN  IF IsTruthy(options.error)
        THEN [directives |-> directives, errors |-> errors, message |-> options.error]
        ELSE IF IsTruthy(min) /\ IsTruthy(max)
        THEN [directives |-> directives, errors |-> errors \o <<"min", "max">>,
              message |-> Str("Enter a number between " \o ToStr(min)
                                  \o " and " \o ToStr(max))]
        ELSE IF IsTruthy(min)
        THEN [directives |-> directives, errors |-> Append(errors, "min"),
              message |-> Str("Enter a number >= " \o ToStr(min))]
        ELSE IF IsTruthy(max)
        THEN [directives |-> directives, errors |-> Append(errors, "max"),
              message |-> Str("Enter a number <= " \o ToStr(max))]
        ELSE [directives |-> directives, errors |-> errors,
              message |-> Str("Enter a number")]

\* rules.isJson
IsJson(options) ==
    LET errorMsg == IF ~IsTruthy(options.error)
                    THEN Str("Enter a valid JSON expression") ELSE options.error IN
    [directives |-> <<Attr("is-json", "")>>,
     errors |-> <<"json", "parse">>,
     message |-> errorMsg]

\* The keys of the rules object.
RuleNames == {"isNotEmpty", "isIntInRange", "isFloatInRange", "isJson"}

\* encode(name, options): the rule's result, or null.  The result is given as
\* a sequence, empty for null, so that "if (rule) directives.push(rule)" is a
\* concatenation.
Encode(name, options) ==
    LET opts == IF options.null THEN EmptyOptions ELSE options IN
    CASE name = "isNotEmpty" -> <<IsNotEmpty(opts)>>
      [] name = "isIntInRange" -> <<IsIntInRange(opts)>>
      [] name = "isFloatInRange" -> <<IsFloatInRange(opts)>>
      [] name = "isJson" -> <<IsJson(opts)>>
      [] OTHER -> <<>>

\* -------------------------------------------------------------- emValidate

\* A requires object ({ruleName: options, ...}) is the sequence of its keys
\* with their values, in insertion order, which is the order of for..in;
\* present is false where the property holding it is absent.
NoRequires == [present |-> FALSE, rules |-> <<>>]
RequiresObj(rules) == [present |-> TRUE, rules |-> rules]
Entry(name, options) == [name |-> name, options |-> options]

\* requires[name] !== undefined
HasKey(rules, name) == \E i \in 1..Len(rules) : rules[i].name = name

\* Which object the variable requires refers to:
\* fieldDescription.requires || (settings && settings.requires), or the
\* object created for the fallback.
RequiresSource(field) ==
    IF field.description.requires.present THEN "description"
    ELSE IF field.description.settings.present
            /\ field.description.settings.requires.present THEN "settings"
    ELSE "fallback"

\* switch (field.type): the default validators of the field type
DefaultRequires(type) ==
    CASE type = "double" -> <<Entry("isFloatInRange", EmptyOptions)>>
      [] type = "integer" -> <<Entry("isIntInRange", EmptyOptions)>>
      [] type = "json" -> <<Entry("isJson", NullOptions)>>
      [] OTHER -> <<>>

\* field.type.slice(0, 5) == 'list:', for the types among the inputs
IsListType(type) == type \in {"list:integer", "list:string"}

\* A step that adds isNotEmpty to every required field, present or not.
AddIsNotEmptyAlways(field, rules) ==
    IF field.description.required
    THEN IF field.hasOptions
         THEN IF IsListType(field.type)
              THEN Append(rules, Entry("isNotEmpty",
                              ObjOptions(Undefined, Undefined, Str("Select at least one option"))))
              ELSE Append(rules, Entry("isNotEmpty",
                              ObjOptions(Undefined, Undefined, Str("Select a value"))))
         ELSE Append(rules, Entry("isNotEmpty", NullOptions))
    ELSE rules

\* if (fieldDescription.required && requires.isNotEmpty === undefined) ...
AddIsNotEmpty(field, rules) ==
    IF field.description.required /\ ~HasKey(rules, "isNotEmpty")
    THEN IF field.hasOptions
         THEN IF IsListType(field.type)
              THEN Append(rules, Entry("isNotEmpty",
                              ObjOptions(Undefined, Undefined, Str("Select at least one option"))))
              ELSE Append(rules, Entry("isNotEmpty",
                              ObjOptions(Undefined, Undefined, Str("Select a value"))))
         ELSE Append(rules, Entry("isNotEmpty", NullOptions))
    ELSE rules

\* for (ruleName in requires) { rule = encode(...); if (rule) push }
RECURSIVE EncodeFrom(_, _)
EncodeFrom(rules, i) ==
    IF i > Len(rules)
    THEN <<>>
    ELSE Encode(rules[i].name, rules[i].options) \o EncodeFrom(rules, i + 1)

\* The keys and values of requires before isNotEmpty is added.
RequiresOnEntry(field) ==
    CASE RequiresSource(field) = "description" -> field.description.requires.rules
      [] RequiresSource(field) = "settings" -> field.description.settings.requires.rules
      [] OTHER -> DefaultRequires(field.type)

\* getDirectives(field): the array returned, and the field as the call
\* leaves it (requires is the object of the description or of the settings
\* unless the fallback object was created).
GetDirectives(field) ==
    LET source == RequiresSource(field)
        rules == AddIsNotEmpty(field, RequiresOnEntry(field))
    IN  [directives |-> EncodeFrom(rules, 1),
         field |-> CASE source = "description" ->
                            [field EXCEPT !.description.requires.rules = rules]
                     [] source = "settings" ->
                            [field EXCEPT !.description.settings.requires.rules = rules]
                     [] OTHER -> field]

\* ------------------------------------------------------ emValidate, inputs

\* Rules in one requires object.
MaxRules == 2
\* getDirectives() calls on one field.
MaxGets == 2

\* Keys of a requires object; isEmail is no key of rules.  (A key that
\* every object inherits, as "constructor", is not among them.)
RuleKeys == RuleNames \cup {"isEmail"}

\* Options of the rules of a field description.
FieldOptions ==
    {NullOptions, EmptyOptions,
     ObjOptions(Num(0), Num(5), Undefined),
     ObjOptions(Num(1), Undefined, Str("Custom"))}

\* The requires objects: up to MaxRules keys, each key once.
RuleLists ==
    {r \in SeqUpTo({Entry(n, o) : n \in RuleKeys, o \in FieldOptions}, MaxRules) :
        \A i, k \in 1..Len(r) : r[i].name = r[k].name => i = k}

FieldTypes == {"string", "integer", "double", "json", "list:integer"}

NoSettings == [present |-> FALSE, requires |-> NoRequires]

SettingsValues ==
    {NoSettings,
     [present |-> TRUE, requires |-> NoRequires],
     [present |-> TRUE, requires |-> RequiresObj(<<Entry("isIntInRange",
                                         ObjOptions(Num(0), Num(5), Undefined))>>)]}

\* A field: its type, the answer of field.hasOptions(), and its description.
Fields ==
    [type : FieldTypes,
     hasOptions : BOOLEAN,
     description : [required : BOOLEAN,
                    requires : {NoRequires} \cup {RequiresObj(r) : r \in RuleLists},
                    settings : SettingsValues]]

\* Options passed to encode().
BoundValues == {Undefined, Num(0), Num(5), Str(""), Str("7"), Str("abc")}
ErrorValues == {Undefined, Str(""), Str("Custom")}
EncodeOptions ==
    {NullOptions} \cup
    {ObjOptions(min, max, error) : min \in BoundValues, max \in BoundValues,
                                   error \in ErrorValues}

NoField ==
    [type |-> "string", hasOptions |-> FALSE,
     description |-> [required |-> FALSE, requires |-> NoRequires, settings |-> NoSettings]]

\* No emValidate call yet: the field, the field as it was created, the
\* arrays returned by getDirectives, the encode calls with their results.
NoVld == [field |-> NoField, original |-> NoField, results |-> <<>>, encoded |-> <<>>]

\* -------------------------------------------------------------------- Init

\* The service as the factory returns it.  $rootScope.syncInProgress is not
\* written before the first synchronize(): the absent slot reads as not in
\* progress.
InitService ==
    /\ jobs = <<>>
    /\ syncJobs = <<>>
    /\ statusUpdate = FALSE
    /\ timers = 0
    /\ syncInProgress = FALSE
    /\ inflight = <<>>
    /\ calls = <<>>
    /\ httpErrors = <<>>
    /\ statusHist = <<>>
    /\ getFormCalls = <<>>
    /\ passes = 0
    /\ lastPass = NoPass

Init ==
    /\ InitService
    /\ lastRun = NoRun
    /\ ufl = NoUfl
    /\ vld = NoVld

\* ----------------------------------------------------------------- actions

ExternalCalls == {c \in 1..Len(calls) : calls[c].parent = 0}

\* The form entries and catalog items supplied so far.
RECURSIVE SuppliedFrom(_)
SuppliedFrom(c) ==
    IF c > Len(calls) THEN 0
    ELSE Len(calls[c].forms) + Len(calls[c].data) + SuppliedFrom(c + 1)
Supplied == SuppliedFrom(1)

\* api.synchronize(forms), called by the application.
SynchronizeCall(forms) ==
    /\ Cardinality(ExternalCalls) < MaxCalls
    /\ Supplied + Len(forms) <= MaxEntries
    /\ \E s \in {Synchronize(Cur, forms, 0)} : Commit(s)
    /\ UNCHANGED <<lastRun, ufl, vld>>

\* emServer.formList answers activation c with the catalog.
CatalogSuccess(c, data) ==
    /\ calls[c].pc = "catalog"
    /\ Supplied + Len(data) <= MaxEntries
    /\ \E s \in {OnCatalog(Cur, c, data)} : Commit(s)
    /\ UNCHANGED <<lastRun, ufl, vld>>

\* emServer.formList fails for activation c.
CatalogFailure(c, response) ==
    /\ calls[c].pc = "catalog"
    /\ \E s \in {OnCatalogError(Cur, c, response)} : Commit(s)
    /\ UNCHANGED <<lastRun, ufl, vld>>

\* emDB.tables() resolves for activation c.
TablesSuccess(c, tableNames) ==
    /\ calls[c].pc = "tables"
    /\ \E s \in {OnTables(Cur, c, tableNames)} : Commit(s)
    /\ UNCHANGED <<lastRun, ufl, vld>>

\* emDB.tables() rejects for activation c.
TablesFailure(c) ==
    /\ calls[c].pc = "tables"
    /\ \E s \in {OnTablesRejected(Cur, c)} : Commit(s)
    /\ UNCHANGED <<lastRun, ufl, vld>>

\* The then-callback of the resolved form list of activation c runs.
FormListResolved(c) ==
    /\ calls[c].pc = "resolved"
    /\ \E s \in {OnFormList(Cur, c)} : Commit(s)
    /\ UNCHANGED <<lastRun, ufl, vld>>

\* The k-th outstanding emServer.getForm request succeeds.
GetFormSuccess(k) ==
    /\ k \in 1..Len(inflight)
    /\ \E s \in {OnGetFormSuccess([Cur EXCEPT !.inflight = RemoveAt(@, k)], inflight[k])} : Commit(s)
    /\ UNCHANGED <<lastRun, ufl, vld>>

\* The k-th outstanding emServer.getForm request fails.
GetFormFailure(k) ==
    /\ k \in 1..Len(inflight)
    /\ \E s \in {OnGetFormError([Cur EXCEPT !.inflight = RemoveAt(@, k)], inflight[k])} : Commit(s)
    /\ UNCHANGED <<lastRun, ufl, vld>>

\* A $timeout(updateSyncStatus, 100) callback runs.  It is scheduled only by
\* an entry of updateSyncStatus that finds statusUpdate set.
TimerFires ==
    /\ timers > 0
    /\ \E s \in {UpdateSyncStatus([Cur EXCEPT !.timers = @ - 1])} : Commit(s)
    /\ UNCHANGED <<lastRun, ufl, vld>>

\* TimerFires is no disjunct of Next: every task enters updateSyncStatus with
\* statusUpdate false and leaves it false, so no timer is ever scheduled.
Next ==
    \/ \E forms \in FormLists : SynchronizeCall(forms)
    \/ \E c \in 1..Len(calls), data \in Catalogs : CatalogSuccess(c, data)
    \/ \E c \in 1..Len(calls), response \in Responses : CatalogFailure(c, response)
    \/ \E c \in 1..Len(calls), tableNames \in TableLists : TablesSuccess(c, tableNames)
    \/ \E c \in 1..Len(calls) : TablesFailure(c)
    \/ \E c \in 1..Len(calls) : FormListResolved(c)
    \/ \E k \in 1..Len(inflight) : GetFormSuccess(k)
    \/ \E k \in 1..Len(inflight) : GetFormFailure(k)

Spec == Init /\ [][Next]_vars

\* ---------------------------------------------------------------- fairness

\* A collaborator answers a request, or the event loop runs a queued callback.
CatalogResponds ==
    \/ \E c \in 1..Len(calls), data \in Catalogs : CatalogSuccess(c, data)
    \/ \E c \in 1..Len(calls), response \in Responses : CatalogFailure(c, response)

TablesResponds ==
    \/ \E c \in 1..Len(calls), tableNames \in TableLists : TablesSuccess(c, tableNames)
    \/ \E c \in 1..Len(calls) : TablesFailure(c)

GetFormResponds ==
    \E k \in 1..Len(inflight) : GetFormSuccess(k) \/ GetFormFailure(k)

\* Every request is answered in the end, with success or with failure, and
\* a pending timer callback is run in the end.  Nothing obliges the
\* application to call synchronize().
Fairness ==
    /\ WF_vars(CatalogResponds)
    /\ WF_vars(TablesResponds)
    /\ WF_vars(GetFormResponds)
    /\ WF_vars(TimerFires)

SpecLive == Init /\ [][Next]_vars /\ Fairness

\* The event loop runs the then-callback of a resolved form list.
FormListHandled == \E c \in 1..Len(calls) : FormListResolved(c)

\* Every request is answered and every queued callback is run in the end.
SpecFair == Init /\ [][Next]_vars /\ Fairness /\ WF_vars(FormListHandled)

\* ------------------------------------------- SyncJob.run, invoked directly

\* job.run() on any job constructed so far, whatever its status.  Inside the
\* service run() is only reached through synchronize, which tests the status
\* first; this is the method called on its own.
RunDirect(j) ==
    /\ j \in 1..Len(jobs)
    /\ \E s \in {Run(Cur, j)} : Commit(s)
    /\ lastRun' = [job |-> j, before |-> jobs[j].status]
    /\ UNCHANGED <<ufl, vld>>

NextRun ==
    \/ Next
    \/ \E j \in 1..Len(jobs) : RunDirect(j)

SpecRun == Init /\ [][NextRun]_vars

\* --------------------------------------- updateFormList, called on its own

\* Entries of a current list: any table, installed or not, selected or not.
CurEntries ==
    {[name |-> LabelOf(t), tableName |-> t, ref |-> RefOf(t),
      installed |-> i, download |-> d] :
        t \in FormNames, i \in BOOLEAN, d \in {JsTrue, JsFalse}}

CurLists == SeqUpTo(CurEntries, MaxCur)
DataLists == SeqUpTo({CatalogItem(t) : t \in FormNames}, MaxData)
LocalTables == {<<>>, <<"incident">>, <<"assessment", "incident">>, <<"constructor">>}

InitForms ==
    /\ InitService
    /\ lastRun = NoRun
    /\ ufl \in [currentList : CurLists, tables : LocalTables, data : DataLists,
                called : {FALSE}, result : {<<>>}]
    /\ vld = NoVld

\* api.updateFormList(currentList, tables, data)
UpdateFormListCall ==
    /\ ~ufl.called
    /\ ufl' = [ufl EXCEPT !.called = TRUE,
                          !.result = UpdateFormList(ufl.currentList, ufl.tables, ufl.data)]
    /\ UNCHANGED <<svcVars, lastRun, vld>>

NextForms == UpdateFormListCall

SpecForms == InitForms /\ [][NextForms]_vars

\* ----------------------------------------- emValidate, called on its own

InitValidate ==
    /\ InitService
    /\ lastRun = NoRun
    /\ ufl = NoUfl
    /\ \E f \in Fields : vld = [NoVld EXCEPT !.field = f, !.original = f]

\* api.getDirectives(field)
GetDirectivesCall ==
    /\ Len(vld.results) < MaxGets
    /\ \E r \in {GetDirectives(vld.field)} :
           vld' = [vld EXCEPT !.field = r.field,
                              !.results = Append(@, r.directives)]
    /\ UNCHANGED <<svcVars, lastRun, ufl>>

NextValidate == GetDirectivesCall

SpecValidate == InitValidate /\ [][NextValidate]_vars

\* api.encode(name, options)
EncodeCall(name, options) ==
    /\ vld.encoded = <<>>
    /\ vld' = [vld EXCEPT !.encoded = <<[name |-> name, options |-> options,
                                         rule |-> Encode(name, options)]>>]
    /\ UNCHANGED <<svcVars, lastRun, ufl>>

NextEncode == \E name \in RuleKeys, options \in EncodeOptions : EncodeCall(name, options)

SpecEncode == Init /\ [][NextEncode]_vars

\* ================================================================== claims

Last(seq) == seq[Len(seq)]

QueueHasOpenJob == \E i \in 1..Len(syncJobs) : jobs[syncJobs[i]].status \in OpenStatuses

\* C1: every job's status starts at 'pending', changes only pending->active,
\* active->success or active->error, and never changes once it is 'success'
\* or 'error'.  statusHist[j] lists every value the status of job j has held.
C1_StatusLifecycle ==
    \A j \in 1..Len(jobs) :
        /\ Len(statusHist[j]) >= 1
        /\ statusHist[j][1] = "pending"
        /\ jobs[j].status = Last(statusHist[j])
        /\ \A i \in 1..(Len(statusHist[j]) - 1) :
               <<statusHist[j][i], statusHist[j][i + 1]>> \in
                   {<<"pending", "active">>, <<"active", "success">>, <<"active", "error">>}

\* Two jobs have run through their whole life, one to success, one to error.
C1_Witness ==
    \E j, k \in 1..Len(jobs) :
        /\ statusHist[j] = <<"pending", "active", "success">>
        /\ statusHist[k] = <<"pending", "active", "error">>

\* C2: run() invoked on a job that is not 'pending' is a no-op (no getForm
\* request, no change of the job, the queue or syncInProgress), and no job
\* ever has more than one getForm request issued for it.
C2_RunNonPendingIsNoOp ==
    /\ [](\A j \in 1..Len(jobs) : getFormCalls[j] <= 1)
    /\ [][\A j \in 1..Len(jobs) :
            (/\ lastRun' # lastRun
             /\ lastRun' = [job |-> j, before |-> jobs[j].status]
             /\ jobs[j].status # "pending")
            => UNCHANGED svcVars]_vars

\* run() was invoked on a job that was active, with its request outstanding.
C2_Witness ==
    /\ lastRun.job \in 1..Len(jobs)
    /\ lastRun.before = "active"
    /\ jobs[lastRun.job].status = "active"
    /\ getFormCalls[lastRun.job] = 1

\* C3: whenever the queue holds a pending or active job, syncInProgress is
\* true.
C3_OpenJobImpliesInProgress == QueueHasOpenJob => syncInProgress

\* An aggregation pass has run and left an active job in the queue.
C3_Witness ==
    /\ QueueHasOpenJob
    /\ passes > 0
    /\ Len(lastPass.after) > 0
    /\ Len(lastPass.before) > Len(lastPass.after)
    /\ syncInProgress

\* C4 as stated: whenever no queued job is pending or active, syncInProgress
\* is false.
C4_Original == ~QueueHasOpenJob => ~syncInProgress

\* Some synchronize() activation still waits for its form list, or for the
\* callback that handles it.
SomeCallUnfinished ==
    \E c \in 1..Len(calls) : calls[c].pc \in {"catalog", "tables", "stalled", "resolved"}

\* C4, amended: whenever no queued job is pending or active and no
\* synchronize() call still waits for its form list, syncInProgress is false.
C4_FlagFalseWhenIdle ==
    (~QueueHasOpenJob /\ ~SomeCallUnfinished) => ~syncInProgress

\* Every call has finished, jobs have run, and the flag is back to false.
C4_Witness ==
    /\ Len(calls) > 0
    /\ ~SomeCallUnfinished
    /\ ~QueueHasOpenJob
    /\ Len(jobs) > 0
    /\ ~syncInProgress

\* C5: an aggregation pass that finds every queued job 'success' or 'error'
\* (or the queue empty) publishes false and leaves the queue empty.
C5_PassOverTerminalQueue ==
    (passes > 0 /\ \A i \in 1..Len(lastPass.before) :
                        lastPass.before[i] \in TerminalStatuses)
    => (~lastPass.flag /\ lastPass.after = <<>> /\ ~lastPass.deferred)

\* The pass after the last open job finished: it is in the queue, terminal.
C5_Witness ==
    /\ passes > 0
    /\ Len(lastPass.before) > 0
    /\ \A i \in 1..Len(lastPass.before) : lastPass.before[i] \in TerminalStatuses
    /\ syncJobs = <<>>
    /\ ~syncInProgress

\* The entries of a form list that are selected for download.
Selected(formList) == SelectSeq(formList, LAMBDA e : e.download = JsTrue)

\* C6: when the resolved form list of an activation is handled,
\* generateSyncJobs returns the number n of entries with download = true and
\* appends n jobs to the end of the queue, one per such entry in list order,
\* each constructed as a pending 'form'/'pull' job with the entry's tableName
\* and ref; the jobs that existed are untouched (n = 0: nothing is added).
C6_GenerateSyncJobs ==
    [][\A c \in 1..Len(calls) :
        (calls[c].pc = "resolved" /\ calls'[c].pc = "done") =>
            LET sel == Selected(calls[c].formList)
                n == Len(sel)
                old == Len(jobs)
            IN  /\ calls'[c].jobsScheduled = n
                /\ Len(jobs') = old + n
                /\ \A j \in 1..old : jobs'[j] = jobs[j]
                /\ syncJobs' = syncJobs \o [k \in 1..n |-> old + k]
                /\ \A k \in 1..n :
                       /\ jobs'[old + k].type = "form"
                       /\ jobs'[old + k].mode = "pull"
                       /\ jobs'[old + k].tableName = sel[k].tableName
                       /\ jobs'[old + k].ref = sel[k].ref
                       /\ statusHist'[old + k][1] = "pending"]_vars

\* A list of two entries, one of them not selected, has been handled.
C6_Witness ==
    \E c \in 1..Len(calls) :
        /\ calls[c].pc = "done"
        /\ calls[c].branch = "generate"
        /\ Len(calls[c].formList) = 2
        /\ calls[c].formList[1].download = JsFalse
        /\ calls[c].jobsScheduled = 1
        /\ jobs[calls[c].firstJob].tableName = calls[c].formList[2].tableName

\* C7: every produced entry has the download flag of a currentList entry
\* with the same tableName when there is one, and true when there is none.
C7_DownloadRetained ==
    ufl.called =>
        \A i \in 1..Len(ufl.data) :
            LET same == {k \in 1..Len(ufl.currentList) :
                            ufl.currentList[k].tableName = ufl.data[i].t}
            IN  IF same # {}
                THEN \E k \in same : ufl.result[i].download = ufl.currentList[k].download
                ELSE ufl.result[i].download = JsTrue

\* The elements of an array.
Elements(arr) == {arr[i] : i \in 1..Len(arr)}

\* C8: every produced entry is installed iff its tableName is an element of
\* tables, whatever currentList holds.
C8_InstalledIffTableExists ==
    ufl.called =>
        /\ Len(ufl.result) = Len(ufl.data)
        /\ \A i \in 1..Len(ufl.data) :
               ufl.result[i].installed <=> (ufl.data[i].t \in Elements(ufl.tables))

\* A current list that says the opposite of tables ["incident"], for the
\* catalog incident, assessment: installed [true, false], download kept.
C8_Witness ==
    /\ ufl.called
    /\ ufl.tables = <<"incident">>
    /\ ufl.data = <<CatalogItem("incident"), CatalogItem("assessment")>>
    /\ Len(ufl.currentList) = 2
    /\ ufl.currentList[1].tableName = "incident" /\ ~ufl.currentList[1].installed
    /\ ufl.currentList[2].tableName = "assessment" /\ ufl.currentList[2].installed
    /\ ufl.result[1].installed
    /\ ~ufl.result[2].installed

\* C9: a synchronize() call that reaches getFormList with a non-empty list
\* gets that same list back and issues neither a catalog request nor a
\* local-table query.
C9_CachedListNoRequest ==
    \A c \in 1..Len(calls) :
        (calls[c].branch = "generate" /\ Len(calls[c].forms) > 0) =>
            /\ calls[c].catalogReqs = 0
            /\ calls[c].tablesReqs = 0
            /\ calls[c].pc \in {"resolved", "done"}
            /\ calls[c].formList = calls[c].forms

\* A call with a non-empty list and an empty queue has scheduled its jobs.
C9_Witness ==
    \E c \in 1..Len(calls) :
        /\ calls[c].branch = "generate"
        /\ Len(calls[c].forms) > 0
        /\ calls[c].pc = "done"
        /\ calls[c].jobsScheduled > 0

\* C10: when the catalog request of an activation fails, its promise is
\* rejected with the response, emServer.httpError is notified once with it,
\* no job is constructed, queued or started, no activation is added (no
\* recursion), and one aggregation pass runs, which leaves syncInProgress
\* false when no queued job is pending or active.
C10_CatalogFailure ==
    [][\A c \in 1..Len(calls) :
        (calls[c].pc = "catalog" /\ calls'[c].pc = "rejected") =>
            /\ Len(calls'[c].response) = 1
            /\ httpErrors' = Append(httpErrors, calls'[c].response[1])
            /\ jobs' = jobs
            /\ syncJobs' = syncJobs
            /\ inflight' = inflight
            /\ getFormCalls' = getFormCalls
            /\ calls' = [calls EXCEPT ![c].pc = "rejected",
                                      ![c].response = calls'[c].response]
            /\ passes' = passes + 1
            /\ (~QueueHasOpenJob => ~syncInProgress')
            /\ (QueueHasOpenJob => syncInProgress')]_vars

\* The only call's catalog request has failed: reported, flag false again.
C10_Witness ==
    \E c \in 1..Len(calls) :
        /\ calls[c].pc = "rejected"
        /\ Len(httpErrors) = 1
        /\ httpErrors[1] = calls[c].response[1]
        /\ passes = 1
        /\ ~syncInProgress

\* The queued jobs that are pending, in queue order.
PendingInQueue == SelectSeq(syncJobs, LAMBDA j : jobs[j].status = "pending")

\* This step is a synchronize() call from outside that found jobs queued.
ExternalRunStep ==
    /\ Len(calls') = Len(calls) + 1
    /\ calls'[Len(calls')].branch = "run"

\* This step handles the resolved form list of activation c.
HandlesFormList(c) == calls[c].pc = "resolved" /\ calls'[c].pc = "done"

\* This step runs the recursive synchronize() call of activation c.
RecursiveRunStep(c) == HandlesFormList(c) /\ calls'[c].jobsScheduled > 0

\* What the run-pending branch does to the jobs that existed before the step:
\* the queued pending ones become active with one getForm request each, all
\* others keep their fields and their request count.
RunsExactlyPending ==
    \A j \in 1..Len(jobs) :
        IF jobs[j].status = "pending" /\ j \in {syncJobs[i] : i \in 1..Len(syncJobs)}
        THEN /\ jobs'[j] = [jobs[j] EXCEPT !.status = "active"]
             /\ getFormCalls'[j] = getFormCalls[j] + 1
        ELSE /\ jobs'[j] = jobs[j]
             /\ getFormCalls'[j] = getFormCalls[j]

\* C11: synchronize called while the queue is non-empty (from outside, or as
\* the driver's recursive call after jobs were generated) starts every pending
\* job of the queue with one getForm request, leaves every other job as it
\* is, and does nothing else: no catalog request, no table query, no job
\* generated, no further activation, no aggregation pass, queue unchanged.
C11_RunPendingBranch ==
    [][/\ ExternalRunStep =>
            /\ Len(syncJobs) > 0
            /\ RunsExactlyPending
            /\ Len(jobs') = Len(jobs)
            /\ syncJobs' = syncJobs
            /\ inflight' = inflight \o PendingInQueue
            /\ calls' = Append(calls, NewCall(calls'[Len(calls')].forms, 0, "run", "done"))
            /\ passes' = passes
            /\ httpErrors' = httpErrors
       /\ \A c \in 1..Len(calls) : RecursiveRunStep(c) =>
            LET old == Len(jobs)
                n == calls'[c].jobsScheduled
            IN  /\ RunsExactlyPending
                /\ Len(jobs') = old + n
                /\ \A k \in 1..n :
                       /\ jobs'[old + k].status = "active"
                       /\ getFormCalls'[old + k] = 1
                /\ inflight' = inflight \o PendingInQueue \o [k \in 1..n |-> old + k]
                /\ Len(calls') = Len(calls)
                /\ calls'[c].recursed = 1
                /\ calls'[c].catalogReqs = calls[c].catalogReqs
                /\ calls'[c].tablesReqs = calls[c].tablesReqs
                /\ \A d \in 1..Len(calls) : d # c => calls'[d] = calls[d]
                /\ passes' = passes]_vars

\* A recursive call has started the job it generated and left the older
\* active job, with its outstanding request, as it was.
C11_Witness ==
    /\ \E c \in 1..Len(calls) :
           /\ calls[c].recursed = 1
           /\ calls[c].firstJob > 1
           /\ jobs[calls[c].firstJob].status = "active"
           /\ getFormCalls[calls[c].firstJob] = 1
    /\ jobs[1].status = "active"
    /\ getFormCalls[1] = 1

\* A call from outside with a non-empty form list found an active job queued
\* and left it as it was.
C11_WitnessExternal ==
    \E c \in 1..Len(calls) :
        /\ calls[c].branch = "run"
        /\ Len(calls[c].forms) > 0
        /\ Len(syncJobs) > 0
        /\ Len(jobs) = 1

\* C12: after the resolved form list of an activation that found the queue
\* empty has been handled with one or more jobs scheduled, the driver has
\* recursed once and every generated job has been started; no queued job is
\* 'pending' in any quiescent state.
C12_GeneratedJobsStarted ==
    /\ \A i \in 1..Len(syncJobs) : jobs[syncJobs[i]].status # "pending"
    /\ \A c \in 1..Len(calls) :
           (calls[c].pc = "done" /\ calls[c].branch = "generate"
                                /\ calls[c].jobsScheduled > 0) =>
               /\ calls[c].recursed = 1
               /\ \A k \in 0..(calls[c].jobsScheduled - 1) :
                      /\ Len(statusHist[calls[c].firstJob + k]) >= 2
                      /\ statusHist[calls[c].firstJob + k][2] = "active"
                      /\ getFormCalls[calls[c].firstJob + k] = 1

\* Two jobs were generated from a fetched catalog and both are running.
C12_Witness ==
    \E c \in 1..Len(calls) :
        /\ calls[c].pc = "done"
        /\ calls[c].catalogReqs = 1
        /\ calls[c].jobsScheduled = 2
        /\ calls[c].recursed = 1
        /\ syncJobs = <<calls[c].firstJob, calls[c].firstJob + 1>>
        /\ \A i \in 1..Len(syncJobs) : jobs[syncJobs[i]].status = "active"

\* C13: when the resolved form list of an activation yields zero scheduled
\* jobs, the driver does not recurse and starts nothing, but runs one
\* aggregation pass, after which syncInProgress is false if no queued job is
\* pending or active (and true otherwise).
C13_ZeroJobsCorrectsFlag ==
    [][\A c \in 1..Len(calls) :
        (HandlesFormList(c) /\ Len(Selected(calls[c].formList)) = 0) =>
            /\ calls'[c].jobsScheduled = 0
            /\ calls'[c].recursed = 0
            /\ Len(calls') = Len(calls)
            /\ jobs' = jobs
            /\ inflight' = inflight
            /\ passes' = passes + 1
            /\ ~lastPass'.deferred
            /\ syncInProgress' = QueueHasOpenJob]_vars

\* A list with every entry deselected was handled: one pass, flag false.
C13_Witness ==
    \E c \in 1..Len(calls) :
        /\ calls[c].pc = "done"
        /\ calls[c].branch = "generate"
        /\ Len(calls[c].formList) > 0
        /\ calls[c].jobsScheduled = 0
        /\ passes = 1
        /\ Len(calls) = 1
        /\ ~syncInProgress

\* This step contains a synchronize() call: one from outside (a new
\* activation without parent) or the driver's recursive one.
SynchronizeStep ==
    \/ Len(calls') > Len(calls)
    \/ \E c \in 1..Len(calls) : calls'[c].recursed > calls[c].recursed

\* C14: after every task in which synchronize was called, syncInProgress is
\* true, whatever the queue holds and whatever forms were passed.
C14_SynchronizePublishesTrue ==
    [][SynchronizeStep => syncInProgress']_vars

\* After a first run ended with the flag false, a second call has set it to
\* true again although no job exists in the queue.
C14_Witness ==
    /\ Len(calls) = 2
    /\ calls[1].pc \in {"done", "rejected"}
    /\ passes > 0
    /\ ~lastPass.flag
    /\ calls[2].pc \in {"catalog", "resolved"}
    /\ syncJobs = <<>>
    /\ syncInProgress

AllJobsTerminal == \A j \in 1..Len(jobs) : jobs[j].status \in TerminalStatuses

\* Every job is 'success' or 'error', the queue is empty, the flag is false.
Settled == AllJobsTerminal /\ syncJobs = <<>> /\ ~syncInProgress

\* C15: if every request is answered in the end, then from any state in which
\* a generated job is pending or active, a state is reached in which every
\* generated job is 'success' or 'error', the queue is empty and
\* syncInProgress is false; and the flag, once false, stays false in every
\* task that calls synchronize neither from outside nor by the driver's
\* recursion.
C15_EventuallySettled ==
    /\ QueueHasOpenJob ~> Settled
    /\ [][(~syncInProgress /\ ~SynchronizeStep) => ~syncInProgress']_vars

\* The end-to-end run: a fetched catalog gave two jobs, one ended in success
\* and one in error, and the flag is false again.
C15_Witness ==
    /\ Len(calls) = 1
    /\ calls[1].catalogReqs = 1
    /\ calls[1].jobsScheduled = 2
    /\ Len(jobs) = 2
    /\ jobs[1].status = "success"
    /\ jobs[2].status = "error"
    /\ Settled

InQueue(j) == \E i \in 1..Len(syncJobs) : syncJobs[i] = j
Outstanding(j) == \E k \in 1..Len(inflight) : inflight[k] = j

\* C16: a job is active exactly while its getForm request is outstanding;
\* an active job is in the queue and syncInProgress is true; and in every
\* task after which the job's request is still outstanding (another job's
\* completion, a synchronize call from outside or by recursion, a catalog or
\* table answer, a handled form list) the job is still active, still queued
\* and the flag is still true.  So a job whose request is never answered
\* stays active and queued, with the flag true, for ever.
C16_HungJobKeepsFlag ==
    /\ [](\A j \in 1..Len(jobs) :
            /\ jobs[j].status = "active" <=> Outstanding(j)
            /\ jobs[j].status = "active" => (InQueue(j) /\ syncInProgress))
    /\ [][\A j \in 1..Len(jobs) :
            (jobs[j].status = "active" /\ Outstanding(j)') =>
                /\ jobs'[j].status = "active"
                /\ InQueue(j)'
                /\ syncInProgress']_vars

\* While the second job hangs, the first one has ended with success and its
\* pass has run: the hung job is still active and queued, the flag is true.
C16_Witness ==
    /\ Len(jobs) = 2
    /\ jobs[1].status = "success"
    /\ jobs[2].status = "active"
    /\ Outstanding(2)
    /\ InQueue(2)
    /\ passes = 1
    /\ lastPass.flag
    /\ syncInProgress

\* While a job hangs, another call's catalog request has failed and its pass
\* has run: the job is still active and queued, the flag is true.
C16_WitnessCatalogFailure ==
    /\ \E j \in 1..Len(jobs) : jobs[j].status = "active" /\ Outstanding(j) /\ InQueue(j)
    /\ \E c \in 1..Len(calls) : calls[c].pc = "rejected"
    /\ passes > 0
    /\ lastPass.flag
    /\ syncInProgress

\* C17: no aggregation pass is in flight between two tasks, a task requests
\* at most one pass, and the pass is performed at once on the queue as the
\* previous pass and the appends since have left it: it is neither deferred
\* nor dropped, and what it leaves is the open jobs of that queue.
C17_OnePassAtATime ==
    /\ [](~statusUpdate)
    /\ [][passes' # passes =>
            /\ passes' = passes + 1
            /\ ~lastPass'.deferred
            /\ timers' = timers
            /\ lastPass'.queue = syncJobs
            /\ lastPass'.after = SelectSeq(syncJobs, LAMBDA j : jobs'[j].status \in OpenStatuses)
            /\ syncJobs' = lastPass'.after]_vars

\* Two jobs ended in two tasks: the second pass saw the queue as the first
\* had compacted it.
C17_Witness ==
    /\ passes = 2
    /\ Len(jobs) = 2
    /\ AllJobsTerminal
    /\ Len(lastPass.queue) = 1
    /\ lastPass.after = <<>>
    /\ syncJobs = <<>>

\* C18: the queue changes only by the append of generateSyncJobs and by the
\* compaction of updateSyncStatus.  The task that handles a resolved form
\* list appends the generated jobs (and compacts when it generated none), a
\* task with an aggregation pass leaves the open jobs in their order, and
\* every other task (a synchronize call, a catalog or table answer with its
\* updateFormList) leaves the queue as it is.
C18_QueueFrame ==
    [][IF \E c \in 1..Len(calls) : HandlesFormList(c)
       THEN syncJobs' = syncJobs \o [k \in 1..(Len(jobs') - Len(jobs)) |-> Len(jobs) + k]
       ELSE IF passes' # passes
            THEN syncJobs' = SelectSeq(syncJobs, LAMBDA j : jobs'[j].status \in OpenStatuses)
            ELSE syncJobs' = syncJobs]_vars

\* Two jobs were appended, one of them was compacted away, the other stays.
C18_Witness ==
    /\ \E c \in 1..Len(calls) : calls[c].jobsScheduled = 2
    /\ Len(jobs) = 2
    /\ syncJobs = <<2>>
    /\ passes = 1
    /\ Len(calls) = 2

\* C19: a job that is 'success' or 'error' is not in the queue, in any
\* quiescent state.
C19_NoTerminalJobQueued ==
    \A j \in 1..Len(jobs) : jobs[j].status \in TerminalStatuses => ~InQueue(j)

\* One job has failed and is gone from the queue, the other is still there.
C19_Witness ==
    /\ Len(jobs) = 2
    /\ jobs[1].status = "error"
    /\ jobs[2].status = "active"
    /\ syncJobs = <<2>>

\* C20 as stated: aggregation passes occur again and again, whatever else
\* happens.
C20_Original == []<><<passes' = passes + 1>>_vars

\* This step answers a getForm request.
GetFormAnswered == Len(inflight') < Len(inflight)

\* C20, amended: no timer for an aggregation pass is ever pending, and a pass
\* runs only in a task that answers a getForm request, reports a failed
\* catalog request, or handles a form list from which no job was scheduled.
C20_PassesOnlyOnEvents ==
    /\ [](timers = 0)
    /\ [][passes' # passes =>
            \/ GetFormAnswered
            \/ \E c \in 1..Len(calls) : calls[c].pc = "catalog" /\ calls'[c].pc = "rejected"
            \/ \E c \in 1..Len(calls) : HandlesFormList(c) /\ calls'[c].jobsScheduled = 0]_vars

\* Both calls are over and two passes have run, one for a failed catalog
\* request and one for a list without downloads; nothing is left to happen.
C20_Witness ==
    /\ passes = 2
    /\ timers = 0
    /\ \E c \in 1..Len(calls) : calls[c].pc = "rejected"
    /\ \E c \in 1..Len(calls) : calls[c].pc = "done" /\ calls[c].branch = "generate"
                                                     /\ calls[c].jobsScheduled = 0
    /\ Len(calls) = 2

\* The rule that rules.isNotEmpty returns, whatever its message.
IsRequiredRule(rule) ==
    /\ rule.directives = <<Attr("ng-required", "true")>>
    /\ rule.errors = <<"required">>

RequiredRules(directives) == {i \in 1..Len(directives) : IsRequiredRule(directives[i])}

\* The message C21 gives for a required field.
MessageByOptions(field) ==
    IF field.hasOptions
    THEN IF IsListType(field.type) THEN Str("Select at least one option")
                                   ELSE Str("Select a value")
    ELSE Str("Enter a value")

\* The options isNotEmpty has in requires when getDirectives is entered.
GivenIsNotEmpty(field) ==
    LET rules == RequiresOnEntry(field)
        i == CHOOSE i \in 1..Len(rules) : rules[i].name = "isNotEmpty"
    IN  rules[i].options

\* C21 as stated: the first getDirectives call on a required field returns
\* exactly one isNotEmpty rule, whose message is chosen by the field's options
\* and type; on a field that is not required and does not name isNotEmpty it
\* returns none.
C21_Original ==
    Len(vld.results) >= 1 =>
        LET field == vld.original
            named == HasKey(RequiresOnEntry(field), "isNotEmpty")
            d == vld.results[1]
        IN  /\ field.description.required =>
                /\ Cardinality(RequiredRules(d)) = 1
                /\ \A i \in RequiredRules(d) : d[i].message = MessageByOptions(field)
            /\ (~field.description.required /\ ~named) => RequiredRules(d) = {}

\* C21, amended: the message is chosen by the field's options and type only
\* when getDirectives adds the rule; when requires names isNotEmpty already,
\* the one rule returned has the error option given there, or 'Enter a
\* value' when none is given, required or not.
C21_IsNotEmptyRule ==
    Len(vld.results) >= 1 =>
        LET field == vld.original
            named == HasKey(RequiresOnEntry(field), "isNotEmpty")
            d == vld.results[1]
        IN  /\ (field.description.required /\ ~named) =>
                /\ Cardinality(RequiredRules(d)) = 1
                /\ \A i \in RequiredRules(d) : d[i].message = MessageByOptions(field)
            /\ named =>
                /\ Cardinality(RequiredRules(d)) = 1
                /\ \A i \in RequiredRules(d) :
                       d[i].message = IF IsTruthy(GivenIsNotEmpty(field).error)
                                      THEN GivenIsNotEmpty(field).error
                                      ELSE Str("Enter a value")
            /\ (~field.description.required /\ ~named) => RequiredRules(d) = {}

\* A required list field with options and a range rule got the rule added,
\* after the range rule, with the message for selectors of several options.
C21_Witness ==
    /\ Len(vld.results) >= 1
    /\ vld.original.description.required
    /\ vld.original.hasOptions
    /\ vld.original.type = "list:integer"
    /\ vld.original.description.requires.present
    /\ Len(vld.original.description.requires.rules) = 1
    /\ vld.original.description.requires.rules[1].name = "isIntInRange"
    /\ Len(vld.results[1]) = 2
    /\ IsRequiredRule(vld.results[1][2])
    /\ vld.results[1][2].message = Str("Select at least one option")

HasAttr(rule, attr) == \E i \in 1..Len(rule.directives) : rule.directives[i].attr = attr
HasError(rule, e) == \E i \in 1..Len(rule.errors) : rule.errors[i] = e

\* absent, or a number
AbsentOrNumber(v) == v.t \in {"undefined", "number"}

\* C29: for isIntInRange and isFloatInRange, with min and max each absent or
\* a number and with or without a custom error message, 'min' is in the
\* errors of the returned rule exactly if it has a min directive, and 'max'
\* exactly if it has a max directive.
C29_ErrorsFollowDirectives ==
    \A k \in 1..Len(vld.encoded) :
        LET e == vld.encoded[k] IN
        (/\ e.name \in {"isIntInRange", "isFloatInRange"}
         /\ AbsentOrNumber(e.options.min)
         /\ AbsentOrNumber(e.options.max)) =>
            /\ Len(e.rule) = 1
            /\ HasError(e.rule[1], "min") <=> HasAttr(e.rule[1], "min")
            /\ HasError(e.rule[1], "max") <=> HasAttr(e.rule[1], "max")

\* C30: getDirectives leaves the field as it was created, and two calls on
\* the same field return equal arrays.
C30_FieldUnchanged ==
    /\ vld.field = vld.original
    /\ Len(vld.results) >= 2 => vld.results[1] = vld.results[2]

\* C22: the latest compaction pass kept exactly the jobs that were 'pending'
\* or 'active' when it ran, in their order, and added none; the flag it
\* published is whether a job remained; and the task that ran the pass left
\* the queue and the flag as the pass set them.
C22_CompactionExact ==
    /\ [](passes > 0 =>
            LET keep == {i \in 1..Len(lastPass.queue) : lastPass.before[i] \in OpenStatuses} IN
            /\ Len(lastPass.before) = Len(lastPass.queue)
            /\ Len(lastPass.after) = Cardinality(keep)
            /\ \A i \in keep :
                   lastPass.after[Cardinality({k \in keep : k <= i})] = lastPass.queue[i]
            /\ lastPass.flag = (Len(lastPass.after) > 0))
    /\ [][passes' # passes =>
            /\ lastPass'.before = [i \in 1..Len(lastPass'.queue) |->
                                      jobs'[lastPass'.queue[i]].status]
            /\ syncJobs' = lastPass'.after
            /\ syncInProgress' = lastPass'.flag]_vars

\* A pass over a queue of a failed and an active job kept the active one.
C22_Witness ==
    /\ passes > 0
    /\ lastPass.before = <<"error", "active">>
    /\ lastPass.queue = <<1, 2>>
    /\ lastPass.after = <<2>>
    /\ lastPass.flag
    /\ syncJobs = <<2>>

\* C23: every activation is an external call (a recursive call never starts
\* a resolution of its own), recurses at most once, and only after it
\* generated jobs, and sends at most one catalog request and one table
\* query.
C23_RecursionBounded ==
    \A c \in 1..Len(calls) :
        /\ calls[c].parent = 0
        /\ calls[c].recursed <= 1
        /\ calls[c].recursed = 1 => (calls[c].branch = "generate" /\ calls[c].jobsScheduled > 0)
        /\ calls[c].catalogReqs <= 1
        /\ calls[c].tablesReqs <= calls[c].catalogReqs
        /\ calls[c].branch = "run" => calls[c].catalogReqs = 0

\* One call fetched the catalog, generated two jobs and recursed once; both
\* jobs are over and nothing is left to run.
C23_Witness ==
    /\ Len(calls) = 1
    /\ calls[1].catalogReqs = 1
    /\ calls[1].tablesReqs = 1
    /\ calls[1].recursed = 1
    /\ calls[1].jobsScheduled = 2
    /\ \A j \in 1..Len(jobs) : jobs[j].status \in TerminalStatuses
    /\ inflight = <<>>

\* C24: no two pending or active jobs of the queue are for the same table,
\* and no two outstanding getForm requests are for the same table.
C24_NoDuplicateOpenJobs ==
    /\ \A i, k \in 1..Len(syncJobs) :
           (/\ i # k
            /\ jobs[syncJobs[i]].status \in OpenStatuses
            /\ jobs[syncJobs[k]].status \in OpenStatuses) =>
               jobs[syncJobs[i]].tableName # jobs[syncJobs[k]].tableName
    /\ \A i, k \in 1..Len(inflight) :
           i # k => jobs[inflight[i]].tableName # jobs[inflight[k]].tableName

\* C25: while the catalog request or the table query of some call is
\* outstanding, or a queued job is pending or active, syncInProgress is true.
C25_UnfinishedImpliesInProgress ==
    (\/ \E c \in 1..Len(calls) : calls[c].pc \in {"catalog", "tables"}
     \/ QueueHasOpenJob) => syncInProgress

\* C26: if every request is answered and every queued callback is run in
\* the end, syncInProgress, once true, becomes false again.
C26_FlagEventuallyFalse == syncInProgress ~> ~syncInProgress

\* C27: statusUpdate is false and no timer is pending in every quiescent
\* state, and every entry of updateSyncStatus finds statusUpdate false: no
\* pass is deferred.
C27_NeverReentered ==
    /\ [](~statusUpdate /\ timers = 0)
    /\ [][passes' # passes => (~lastPass'.deferred /\ ~statusUpdate')]_vars

\* Two passes have run, one for a failed catalog request and one for a job
\* that ended, and the flag has never been found set.
C27_Witness ==
    /\ passes = 2
    /\ Len(httpErrors) = 1
    /\ \E j \in 1..Len(jobs) : jobs[j].status \in TerminalStatuses
    /\ ~lastPass.deferred
    /\ ~statusUpdate
    /\ timers = 0

\* C28: the list returned by updateFormList has one entry per item of data,
\* in data's order, with the item's name, tableName and ref (so no entry
\* for a table that only currentList knows); the call leaves its arguments
\* and the service state as they are.
C28_OneEntryPerItem ==
    /\ [](ufl.called =>
            /\ Len(ufl.result) = Len(ufl.data)
            /\ \A i \in 1..Len(ufl.data) :
                   /\ ufl.result[i].name = ufl.data[i].n
                   /\ ufl.result[i].tableName = ufl.data[i].t
                   /\ ufl.result[i].ref = ufl.data[i].r)
    /\ [][/\ ufl'.currentList = ufl.currentList
          /\ ufl'.tables = ufl.tables
          /\ ufl'.data = ufl.data
          /\ syncJobs' = syncJobs
          /\ jobs' = jobs
          /\ syncInProgress' = syncInProgress]_vars

\* A call with two items of data and a current entry for a table that
\* data does not list.
C28_Witness ==
    /\ ufl.called
    /\ Len(ufl.data) = 2
    /\ Len(ufl.result) = 2
    /\ \E i \in 1..Len(ufl.currentList) :
           \A k \in 1..Len(ufl.data) : ufl.data[k].t # ufl.currentList[i].tableName
    /\ \E i \in 1..Len(ufl.currentList) :
           \E k \in 1..Len(ufl.data) : ufl.data[k].t = ufl.currentList[i].tableName

====
